---- MODULE Spec2Model ----
(***************************************************************************)
(* Model of the vector library: Vec2 (src/Vec2.py) and Vec3 (src/Vec3.py). *)
(*                                                                         *)
(* Arithmetic.  The library computes on Python floats.  The model computes *)
(* on exact reals of the form (n/d) * sqrt(k), the smallest set closed     *)
(* under the products, quotients and square roots of sums of squares that  *)
(* the code takes when it starts from integer components.  Rounding error, *)
(* signed zeros, infinities and NaN are outside the model; angles are      *)
(* multiples of 90 degrees, whose sine and cosine are taken as exactly     *)
(* 0, 1 or -1.                                                             *)
(***************************************************************************)
EXTENDS Integers, Sequences, FiniteSets, TLC

(***************************************************************************)
(* Bounds of the exploration.                                              *)
(***************************************************************************)
\* the number of calls that change the heap (scale, normalise, rotate, copy,
\* * and /) in one run
MaxOps == 2

\* the operands of the comparisons and sums are drawn from the grid of
\* vectors with integer components in -1 .. MaxCoord
MaxCoord == 1

(***************************************************************************)
(* float: the reals (n/d) * sqrt(k), kept as <<n, d, k>> with n/d in       *)
(* lowest terms, d > 0, k >= 1 square-free, and k = 1 when n = 0.  The     *)
(* form is canonical, so equal reals are equal tuples.                     *)
(***************************************************************************)
Abs(n) == IF n < 0 THEN -n ELSE n

Sgn(n) == IF n < 0 THEN -1 ELSE IF n = 0 THEN 0 ELSE 1

RECURSIVE Gcd(_, _)
Gcd(a, b) == IF b = 0 THEN a ELSE Gcd(b, a % b)

\* (n/d) * sqrt(k) for square-free k, in canonical form
Real(n, d, k) ==
    IF n = 0 THEN <<0, 1, 1>>
    ELSE LET g == Gcd(Abs(n), Abs(d))
         IN  <<(Sgn(d) * n) \div g, Abs(d) \div g, k>>

RECURSIVE SquarePart(_, _)
\* the largest s with s*s dividing m, given that no i' < i has i'*i' dividing m
SquarePart(m, i) ==
    IF i * i > m THEN 1
    ELSE IF m % (i * i) = 0 THEN i * SquarePart(m \div (i * i), i)
    ELSE SquarePart(m, i + 1)

Zero == <<0, 1, 1>>

One == <<1, 1, 1>>

\* float(i) for an integer i
Float(i) == <<i, 1, 1>>

Neg(a) == <<-a[1], a[2], a[3]>>

\* a * b : sqrt(j) * sqrt(k) = g * sqrt((j/g) * (k/g)) for g = gcd(j, k)
Mul(a, b) ==
    LET g == Gcd(a[3], b[3])
    IN  Real(a[1] * b[1] * g, a[2] * b[2], (a[3] \div g) * (b[3] \div g))

\* a / b for b # 0 : 1 / ((n/d) * sqrt(k)) = (d / (n*k)) * sqrt(k)
Div(a, b) == Mul(a, Real(b[2], b[1] * b[3], b[3]))

\* the sign of a * |a|^2 as a fraction <<numerator, denominator>>
SignedSquare(a) == <<Sgn(a[1]) * a[1] * a[1] * a[3], a[2] * a[2]>>

\* a < b
Less(a, b) ==
    IF a[3] = b[3]
    THEN a[1] * b[2] < b[1] * a[2]
    ELSE SignedSquare(a)[1] * SignedSquare(b)[2] < SignedSquare(b)[1] * SignedSquare(a)[2]

\* a > b
Greater(a, b) == Less(b, a)

\* a + b is again of the form (n/d) * sqrt(k) iff the square-free parts agree
\* (or one of the two is 0)
Commensurable(a, b) ==
    IF a = Zero THEN TRUE ELSE IF b = Zero THEN TRUE ELSE a[3] = b[3]

\* a + b for commensurable a and b
Add(a, b) ==
    IF a = Zero THEN b
    ELSE IF b = Zero THEN a
    ELSE Real(a[1] * b[2] + b[1] * a[2], a[2] * b[2], a[3])

\* a - b
Sub(a, b) == Add(a, Neg(b))

\* a ** 2
Pow2(a) == Real(a[1] * a[1] * a[3], a[2] * a[2], 1)

\* math.sqrt(a) for a rational a >= 0 : sqrt(n/d) = sqrt(n*d) / d
Sqrt(a) ==
    IF a = Zero THEN Zero
    ELSE LET m == a[1] * a[2]
             s == SquarePart(m, 2)
         IN  Real(s, a[2], m \div (s * s))

(***************************************************************************)
(* Trigonometry on multiples of 90 degrees.  An angle in radians is kept   *)
(* as a whole number of quarter turns (units of pi/2).                     *)
(***************************************************************************)
\* math.radians(degrees)
Radians(degrees) == degrees \div 90

\* math.sin(r)
Sin(r) == CASE r % 4 = 0 -> Zero [] r % 4 = 1 -> One [] r % 4 = 2 -> Zero [] OTHER -> Neg(One)

\* math.cos(r)
Cos(r) == CASE r % 4 = 0 -> One [] r % 4 = 1 -> Zero [] r % 4 = 2 -> Neg(One) [] OTHER -> Zero

(***************************************************************************)
(* Python objects.  An object is a record of its type name and its         *)
(* attributes; reading an attribute the record lacks is an AttributeError. *)
(***************************************************************************)
None == [type |-> "NoneType"]

HasAttr(o, a) == a \in DOMAIN o

\* the outcome of a call: the exception it raised ("none" when it returned),
\* the receiver after the call, and the value returned
Returned(self, ret) == [raised |-> "none", self |-> self, ret |-> ret]

Raised(self, exc) == [raised |-> exc, self |-> self, ret |-> None]

(***************************************************************************)
(* class Vec2                                                              *)
(***************************************************************************)
\* Vec2.__init__ on numeric arguments
Vec2(x, y) ==
    [type |-> "Vec2", x |-> x, y |-> y,
     magnitude |-> Sqrt(Add(Pow2(x), Pow2(y)))]

\* Vec2.__repr__ : the pieces of the f-string; a float prints as itself
Vec2_repr(self) == <<"Vec2(", self.x, ", ", self.y, ")">>

\* Vec2.__eq__ : a missing attribute of other is caught and gives False
Vec2_eq(self, other) ==
    IF ~HasAttr(other, "x") THEN FALSE
    ELSE IF self.x # other.x THEN FALSE
    ELSE IF ~HasAttr(other, "y") THEN FALSE
    ELSE self.y = other.y

Vec2_add(self, other) ==
    IF ~HasAttr(other, "x") \/ ~HasAttr(other, "y")
    THEN Raised(self, "Exception")
    ELSE Returned(self, Vec2(Add(self.x, other.x), Add(self.y, other.y)))

Vec2_sub(self, other) ==
    IF ~HasAttr(other, "x") \/ ~HasAttr(other, "y")
    THEN Raised(self, "Exception")
    ELSE Returned(self, Vec2(Sub(self.x, other.x), Sub(self.y, other.y)))

\* Vec2.scale : in place; the stored magnitude is multiplied by the factor
Vec2_scale(self, factor) ==
    [self EXCEPT !.x = Mul(@, factor),
                 !.y = Mul(@, factor),
                 !.magnitude = Mul(@, factor)]

\* Vec2.normalise : magnitude / self.magnitude is evaluated before scale is called
Vec2_normalise(self, magnitude) ==
    IF self.magnitude = Zero
    THEN Raised(self, "ZeroDivisionError")
    ELSE LET r == Vec2_scale(self, Div(magnitude, self.magnitude))
         IN  Returned(r, r)

\* Vec2.in_bounds with the faces of the box counted as inside
Vec2_in_bounds_inclusive(self, bounds) ==
    IF Len(bounds) # 2 THEN Raised(self, "Exception")
    ELSE LET low == bounds[1]
             high == bounds[2]
         IN  IF low.type # "Vec2" \/ high.type # "Vec2"
             THEN Raised(self, "Exception")
             ELSE IF Greater(low.x, high.x) \/ Greater(low.y, high.y)
             THEN Raised(self, "Exception")
             ELSE Returned(self, /\ ~Less(self.x, low.x)
                                 /\ ~Less(self.y, low.y)
                                 /\ ~Greater(self.x, high.x)
                                 /\ ~Greater(self.y, high.y))

Vec2_in_bounds(self, bounds) ==
    IF Len(bounds) # 2 THEN Raised(self, "Exception")
    ELSE LET low == bounds[1]
             high == bounds[2]
         IN  IF low.type # "Vec2" \/ high.type # "Vec2"
             THEN Raised(self, "Exception")
             ELSE IF Greater(low.x, high.x) \/ Greater(low.y, high.y)
             THEN Raised(self, "Exception")
             ELSE Returned(self, /\ Greater(self.x, low.x)
                                 /\ Greater(self.y, low.y)
                                 /\ Less(self.x, high.x)
                                 /\ Less(self.y, high.y))

\* Vec2.distance_to on a Vec2
Vec2_distance_to(self, other) ==
    Sqrt(Add(Pow2(Sub(self.x, other.x)), Pow2(Sub(self.y, other.y))))

\* Vec2.rotate turning clockwise
Vec2_rotate_clockwise(self, degrees, around) ==
    IF degrees = 0 THEN self
    ELSE LET pivot == IF around = None THEN Vec2(Float(0), Float(0)) ELSE around
             rel == Vec2(Sub(self.x, pivot.x), Sub(self.y, pivot.y))
             sin == Sin(Radians(degrees))
             cos == Cos(Radians(degrees))
         IN  [self EXCEPT
                !.x = Add(Add(Mul(cos, rel.x), Mul(sin, rel.y)), pivot.x),
                !.y = Add(Sub(Mul(cos, rel.y), Mul(sin, rel.x)), pivot.y)]

\* Vec2.rotate : in place, x and y only; the stored magnitude is not touched
Vec2_rotate(self, degrees, around) ==
    IF degrees = 0 THEN self
    ELSE LET pivot == IF around = None THEN Vec2(Float(0), Float(0)) ELSE around
             rel == Vec2(Sub(self.x, pivot.x), Sub(self.y, pivot.y))
             sin == Sin(Radians(degrees))
             cos == Cos(Radians(degrees))
         IN  [self EXCEPT
                !.x = Add(Sub(Mul(cos, rel.x), Mul(sin, rel.y)), pivot.x),
                !.y = Add(Add(Mul(cos, rel.y), Mul(sin, rel.x)), pivot.y)]

(***************************************************************************)
(* class Vec3                                                              *)
(***************************************************************************)
\* Vec3.__init__ on numeric arguments
Vec3(x, y, z) ==
    [type |-> "Vec3", x |-> x, y |-> y, z |-> z,
     magnitude |-> Sqrt(Add(Add(Pow2(x), Pow2(y)), Pow2(z)))]

Vec3_repr(self) == <<"Vec3(", self.x, ", ", self.y, ", ", self.z, ")">>

Vec3_eq(self, other) ==
    IF ~HasAttr(other, "x") THEN FALSE
    ELSE IF self.x # other.x THEN FALSE
    ELSE IF ~HasAttr(other, "y") THEN FALSE
    ELSE IF self.y # other.y THEN FALSE
    ELSE IF ~HasAttr(other, "z") THEN FALSE
    ELSE self.z = other.z

Vec3_add(self, other) ==
    IF ~HasAttr(other, "x") \/ ~HasAttr(other, "y") \/ ~HasAttr(other, "z")
    THEN Raised(self, "Exception")
    ELSE Returned(self, Vec3(Add(self.x, other.x), Add(self.y, other.y),
                             Add(self.z, other.z)))

Vec3_sub(self, other) ==
    IF ~HasAttr(other, "x") \/ ~HasAttr(other, "y") \/ ~HasAttr(other, "z")
    THEN Raised(self, "Exception")
    ELSE Returned(self, Vec3(Sub(self.x, other.x), Sub(self.y, other.y),
                             Sub(self.z, other.z)))

\* Vec3.distance_to on a Vec3
Vec3_distance_to(self, other) ==
    Sqrt(Add(Add(Pow2(Sub(self.x, other.x)), Pow2(Sub(self.y, other.y))),
             Pow2(Sub(self.z, other.z))))

\* Vec3.scale : in place; the magnitude is recomputed from the new components
Vec3_scale(self, factor) ==
    LET x == Mul(self.x, factor)
        y == Mul(self.y, factor)
        z == Mul(self.z, factor)
    IN  [self EXCEPT !.x = x, !.y = y, !.z = z,
                     !.magnitude = Sqrt(Add(Add(Pow2(x), Pow2(y)), Pow2(z)))]

Vec3_normalise(self, magnitude) ==
    IF self.magnitude = Zero
    THEN Raised(self, "ZeroDivisionError")
    ELSE LET r == Vec3_scale(self, Div(magnitude, self.magnitude))
         IN  Returned(r, r)

Vec3_in_bounds(self, bounds) ==
    IF Len(bounds) # 2 THEN Raised(self, "Exception")
    ELSE LET low == bounds[1]
             high == bounds[2]
         IN  IF low.type # "Vec3" \/ high.type # "Vec3"
             THEN Raised(self, "Exception")
             ELSE IF Greater(low.x, high.x) \/ Greater(low.y, high.y) \/ Greater(low.z, high.z)
             THEN Raised(self, "Exception")
             ELSE Returned(self, /\ Greater(self.x, low.x)
                                 /\ Greater(self.y, low.y)
                                 /\ Greater(self.z, low.z)
                                 /\ Less(self.x, high.x)
                                 /\ Less(self.y, high.y)
                                 /\ Less(self.z, high.z))

\* Vec3.rotate with pitch and roll applied to the position the step before
\* them left, not to the offset captured at the start
Vec3_rotate_chained(self, yaw, pitch, roll, around) ==
    LET pivot == IF around = None THEN Vec3(Float(0), Float(0), Float(0)) ELSE around
        Rel(o) == Vec3(Sub(o.x, pivot.x), Sub(o.y, pivot.y), Sub(o.z, pivot.z))
        afterYaw ==
            IF yaw # 0
            THEN LET sin == Sin(Radians(yaw))
                     cos == Cos(Radians(yaw))
                     rel == Rel(self)
                 IN  [self EXCEPT
                        !.x = Add(Sub(Mul(cos, rel.x), Mul(sin, rel.z)), pivot.x),
                        !.z = Add(Add(Mul(cos, rel.z), Mul(sin, rel.x)), pivot.z)]
            ELSE self
        afterPitch ==
            IF pitch # 0
            THEN LET sin == Sin(Radians(pitch))
                     cos == Cos(Radians(pitch))
                     rel == Rel(afterYaw)
                 IN  [afterYaw EXCEPT
                        !.y = Add(Sub(Mul(cos, rel.y), Mul(sin, rel.z)), pivot.y),
                        !.z = Add(Add(Mul(cos, rel.z), Mul(sin, rel.y)), pivot.z)]
            ELSE afterYaw
        afterRoll ==
            IF roll # 0
            THEN LET sin == Sin(Radians(roll))
                     cos == Cos(Radians(roll))
                     rel == Rel(afterPitch)
                 IN  [afterPitch EXCEPT
                        !.x = Add(Sub(Mul(cos, rel.x), Mul(sin, rel.y)), pivot.x),
                        !.y = Add(Add(Mul(cos, rel.y), Mul(sin, rel.x)), pivot.y)]
            ELSE afterPitch
    IN  afterRoll

\* Vec3.rotate : in place; yaw, pitch and roll in that order, each from the
\* offset rel captured before the first of them; the magnitude is not touched
Vec3_rotate(self, yaw, pitch, roll, around) ==
    LET pivot == IF around = None THEN Vec3(Float(0), Float(0), Float(0)) ELSE around
        rel == Vec3(Sub(self.x, pivot.x), Sub(self.y, pivot.y), Sub(self.z, pivot.z))
        afterYaw ==
            IF yaw # 0
            THEN LET sin == Sin(Radians(yaw))
                     cos == Cos(Radians(yaw))
                 IN  [self EXCEPT
                        !.x = Add(Sub(Mul(cos, rel.x), Mul(sin, rel.z)), pivot.x),
                        !.z = Add(Add(Mul(cos, rel.z), Mul(sin, rel.x)), pivot.z)]
            ELSE self
        afterPitch ==
            IF pitch # 0
            THEN LET sin == Sin(Radians(pitch))
                     cos == Cos(Radians(pitch))
                 IN  [afterYaw EXCEPT
                        !.y = Add(Sub(Mul(cos, rel.y), Mul(sin, rel.z)), pivot.y),
                        !.z = Add(Add(Mul(cos, rel.z), Mul(sin, rel.y)), pivot.z)]
            ELSE afterYaw
        afterRoll ==
            IF roll # 0
            THEN LET sin == Sin(Radians(roll))
                     cos == Cos(Radians(roll))
                 IN  [afterPitch EXCEPT
                        !.x = Add(Sub(Mul(cos, rel.x), Mul(sin, rel.y)), pivot.x),
                        !.y = Add(Add(Mul(cos, rel.y), Mul(sin, rel.x)), pivot.y)]
            ELSE afterPitch
    IN  afterRoll

(***************************************************************************)
(* Methods chosen by the type of the receiver (Python's method lookup).    *)
(***************************************************************************)
init(o) == IF o.type = "Vec2" THEN Vec2(o.x, o.y) ELSE Vec3(o.x, o.y, o.z)

scale(self, factor) ==
    IF self.type = "Vec2" THEN Vec2_scale(self, factor) ELSE Vec3_scale(self, factor)

normalise(self, magnitude) ==
    IF self.type = "Vec2" THEN Vec2_normalise(self, magnitude)
    ELSE Vec3_normalise(self, magnitude)

\* self.__repr__()
repr(self) == IF self.type = "Vec2" THEN Vec2_repr(self) ELSE Vec3_repr(self)

\* self.__hash__() : the hash of the repr string; Python's string hash is
\* taken as collision-free, so a hash is identified by the string hashed
hash(self) == [hashOf |-> repr(self)]

\* self == other : the __eq__ of the left operand answers (it never returns
\* NotImplemented, so the right operand's __eq__ is not consulted)
eq(self, other) ==
    IF self.type = "Vec2" THEN Vec2_eq(self, other) ELSE Vec3_eq(self, other)

in_bounds(self, bounds) ==
    IF self.type = "Vec2" THEN Vec2_in_bounds(self, bounds)
    ELSE Vec3_in_bounds(self, bounds)

\* self + other
add(self, other) ==
    IF self.type = "Vec2" THEN Vec2_add(self, other) ELSE Vec3_add(self, other)

\* self - other
sub(self, other) ==
    IF self.type = "Vec2" THEN Vec2_sub(self, other) ELSE Vec3_sub(self, other)

distance_to(self, other) ==
    IF self.type = "Vec2" THEN Vec2_distance_to(self, other)
    ELSE Vec3_distance_to(self, other)

(***************************************************************************)
(* Methods that create an object.  h is the heap (object identity ->       *)
(* object), self the identity of the receiver, new the identity the        *)
(* allocator hands to the constructor; the value returned is an identity.  *)
(***************************************************************************)
\* copy that hands back the receiver itself instead of a new object
copy_aliased(h, self, new) == [raised |-> "none", heap |-> h, ret |-> self]

\* Vec2.copy and Vec3.copy : return Vec2(self.x, self.y) / Vec3(self.x, self.y, self.z)
copy(h, self, new) ==
    [raised |-> "none", heap |-> [h EXCEPT ![new] = init(h[self])], ret |-> new]

\* Vec2.__mul__ and Vec3.__mul__ : self.copy().scale(float(other))
mul(h, self, other, new) ==
    LET c == copy(h, self, new)
    IN  [raised |-> "none",
         heap |-> [c.heap EXCEPT ![c.ret] = scale(@, Float(other))],
         ret |-> c.ret]

\* Vec2.__truediv__ and Vec3.__truediv__ : 1 / float(other) is evaluated first
truediv(h, self, other, new) ==
    IF other = 0
    THEN [raised |-> "ZeroDivisionError", heap |-> h, ret |-> 0]
    ELSE LET c == copy(h, self, new)
         IN  [raised |-> "none",
              heap |-> [c.heap EXCEPT ![c.ret] = scale(@, Div(One, Float(other)))],
              ret |-> c.ret]

(***************************************************************************)
(* Inputs of the exploration.                                              *)
(***************************************************************************)
Ids == 1 .. 2

Names == {"v", "w"}

StartVecs ==
    { Vec2(Float(0), Float(0)), Vec2(Float(1), Float(0)), Vec2(Float(3), Float(4)),
      Vec2(Float(1), Float(1)),
      Vec3(Float(0), Float(0), Float(0)), Vec3(Float(1), Float(2), Float(2)),
      Vec3(Float(2), Float(3), Float(6)) }

Factors == {-1, 0, 2}

Targets == {1, 2}

Degrees == {0, 90, 180, -90}

Angles == {0, 90, 180}

Pivots2 == {None, Vec2(Float(1), Float(2))}

Pivots3 == {None, Vec3(Float(1), Float(0), Float(2))}

Coords == (-1) .. MaxCoord

GridVec2 == {Vec2(Float(x), Float(y)) : x \in Coords, y \in Coords}

GridVec3 == {Vec3(Float(x), Float(y), Float(z)) : x \in Coords, y \in Coords, z \in Coords}

\* an object that is no vector but has attributes x and y
Duck == [type |-> "Duck", x |-> Float(1), y |-> Float(0)]

\* an int: no attribute x, y or z
AnInt == [type |-> "int"]

\* right operands of ==, + and -
Operands == GridVec2 \cup GridVec3 \cup {Duck, AnInt}

\* arguments of in_bounds: the pairs of two Vec2 or of two Vec3, and tuples
\* that are no such pair
BoundsArgs ==
    (GridVec2 \X GridVec2) \cup (GridVec3 \X GridVec3)
    \cup { <<Vec2(Float(0), Float(0))>>,
           <<Vec2(Float(0), Float(0)), Vec3(Float(1), Float(1), Float(1))>>,
           <<Vec3(Float(0), Float(0), Float(0)), AnInt>>,
           <<Vec2(Float(0), Float(0)), Vec2(Float(1), Float(1)), Vec2(Float(1), Float(1))>> }

\* every sum the rotation takes is of the form s * sqrt(q)
Representable(self, around) ==
    IF around = None THEN TRUE
    ELSE
        LET cs == IF self.type = "Vec2"
                  THEN {self.x, self.y, around.x, around.y}
                  ELSE {self.x, self.y, self.z, around.x, around.y, around.z}
        IN  \A a \in cs : \A b \in cs : Commensurable(a, b)

(***************************************************************************)
(* State.                                                                  *)
(*   heap : the objects, by identity (None where nothing is allocated)     *)
(*   ref  : the caller's names v and w, each bound to an identity or to 0  *)
(*   last : the last call: its name, receiver (the name it was called on   *)
(*          and the object before the call), arguments, and outcome        *)
(*   ops  : the number of calls that changed the heap so far               *)
(***************************************************************************)
VARIABLES heap, ref, last, ops

vars == <<heap, ref, last, ops>>

Call(op, name, before, args, raised, ret) ==
    [op |-> op, name |-> name, before |-> before, args |-> args,
     raised |-> raised, ret |-> ret]

Bound(n) == ref[n] # 0

Obj(n) == heap[ref[n]]

\* identity for an object that is about to be bound to name n
Fresh(n) == CHOOSE i \in Ids : \A m \in Names \ {n} : ref[m] # i

Init ==
    /\ \E o \in StartVecs : heap = [i \in Ids |-> IF i = 1 THEN o ELSE None]
    /\ ref = [n \in Names |-> IF n = "v" THEN 1 ELSE 0]
    /\ last = Call("start", "v", None, <<>>, "none", 0)
    /\ ops = 0

\* n.scale(f)
Scale(n, f) ==
    /\ ops < MaxOps
    /\ Bound(n)
    /\ heap' = [heap EXCEPT ![ref[n]] = scale(@, Float(f))]
    /\ last' = Call("scale", n, Obj(n), <<f>>, "none", ref[n])
    /\ ops' = ops + 1
    /\ UNCHANGED ref

\* n.normalise(m)
Normalise(n, m) ==
    /\ ops < MaxOps
    /\ Bound(n)
    /\ LET r == normalise(Obj(n), Float(m))
       IN  /\ heap' = [heap EXCEPT ![ref[n]] = r.self]
           /\ last' = Call("normalise", n, Obj(n), <<m>>, r.raised,
                           IF r.raised = "none" THEN ref[n] ELSE 0)
    /\ ops' = ops + 1
    /\ UNCHANGED ref

\* n.rotate(degrees, around) on a Vec2
Rotate2(n, degrees, around) ==
    /\ ops < MaxOps
    /\ Bound(n)
    /\ Obj(n).type = "Vec2"
    /\ Representable(Obj(n), around)
    /\ heap' = [heap EXCEPT ![ref[n]] = Vec2_rotate(@, degrees, around)]
    /\ last' = Call("rotate", n, Obj(n), <<degrees, around>>, "none", ref[n])
    /\ ops' = ops + 1
    /\ UNCHANGED ref

\* n.rotate(yaw, pitch, roll, around) on a Vec3
Rotate3(n, yaw, pitch, roll, around) ==
    /\ ops < MaxOps
    /\ Bound(n)
    /\ Obj(n).type = "Vec3"
    /\ Representable(Obj(n), around)
    /\ heap' = [heap EXCEPT ![ref[n]] = Vec3_rotate(@, yaw, pitch, roll, around)]
    /\ last' = Call("rotate", n, Obj(n), <<yaw, pitch, roll, around>>, "none", ref[n])
    /\ ops' = ops + 1
    /\ UNCHANGED ref

\* w = v.copy()
Copy ==
    /\ ops < MaxOps
    /\ LET r == copy(heap, ref["v"], Fresh("w"))
       IN  /\ heap' = r.heap
           /\ ref' = [ref EXCEPT !["w"] = r.ret]
           /\ last' = Call("copy", "v", Obj("v"), <<>>, r.raised, r.ret)
    /\ ops' = ops + 1

\* w = v * k
MulBy(k) ==
    /\ ops < MaxOps
    /\ LET r == mul(heap, ref["v"], k, Fresh("w"))
       IN  /\ heap' = r.heap
           /\ ref' = [ref EXCEPT !["w"] = r.ret]
           /\ last' = Call("mul", "v", Obj("v"), <<k>>, r.raised, r.ret)
    /\ ops' = ops + 1

\* w = v / k ; when the call raises, w keeps its binding
DivBy(k) ==
    /\ ops < MaxOps
    /\ LET r == truediv(heap, ref["v"], k, Fresh("w"))
       IN  /\ heap' = r.heap
           /\ ref' = IF r.raised = "none" THEN [ref EXCEPT !["w"] = r.ret] ELSE ref
           /\ last' = Call("truediv", "v", Obj("v"), <<k>>, r.raised, r.ret)
    /\ ops' = ops + 1

Next ==
    \/ \E n \in Names : \E f \in Factors : Scale(n, f)
    \/ \E n \in Names : \E m \in Targets : Normalise(n, m)
    \/ \E n \in Names : \E d \in Degrees : \E a \in Pivots2 : Rotate2(n, d, a)
    \/ \E n \in Names : \E yaw \in Angles : \E pitch \in Angles : \E roll \in Angles :
           \E a \in Pivots3 : Rotate3(n, yaw, pitch, roll, a)
    \/ Copy
    \/ \E k \in Factors : MulBy(k)
    \/ \E k \in Factors : DivBy(k)

\* the in-place methods and the constructing methods, from the start vectors
Spec == Init /\ [][Next]_vars

(***************************************************************************)
(* The methods that change nothing: ==, +, - and in_bounds.  A run draws a  *)
(* vector v of the grid and applies one of them to it once, with an        *)
(* argument of the pools above.                                            *)
(***************************************************************************)
InitPure ==
    /\ \E o \in GridVec2 \cup GridVec3 : heap = [i \in Ids |-> IF i = 1 THEN o ELSE None]
    /\ ref = [n \in Names |-> IF n = "v" THEN 1 ELSE 0]
    /\ last = Call("start", "v", None, <<>>, "none", 0)
    /\ ops = 0

\* v == o
Eq(o) ==
    /\ last.op = "start"
    /\ last' = Call("eq", "v", Obj("v"), <<o>>, "none", eq(Obj("v"), o))
    /\ UNCHANGED <<heap, ref, ops>>

\* v + o
AddTo(o) ==
    /\ last.op = "start"
    /\ LET r == add(Obj("v"), o)
       IN  last' = Call("add", "v", Obj("v"), <<o>>, r.raised, r.ret)
    /\ UNCHANGED <<heap, ref, ops>>

\* v - o
SubFrom(o) ==
    /\ last.op = "start"
    /\ LET r == sub(Obj("v"), o)
       IN  last' = Call("sub", "v", Obj("v"), <<o>>, r.raised, r.ret)
    /\ UNCHANGED <<heap, ref, ops>>

\* v.in_bounds(b)
InBounds(b) ==
    /\ last.op = "start"
    /\ LET r == in_bounds(Obj("v"), b)
       IN  last' = Call("in_bounds", "v", Obj("v"), <<b>>, r.raised, r.ret)
    /\ UNCHANGED <<heap, ref, ops>>

NextPure ==
    \/ \E o \in Operands : Eq(o)
    \/ \E o \in Operands : AddTo(o)
    \/ \E o \in Operands : SubFrom(o)
    \/ \E b \in BoundsArgs : InBounds(b)

SpecPure == InitPure /\ [][NextPure]_vars
(***************************************************************************)
(* Properties.                                                             *)
(***************************************************************************)
IsVector(o) == o.type \in {"Vec2", "Vec3"}

\* x^2 + y^2 [+ z^2] of a vector
SumOfSquares(o) ==
    IF o.type = "Vec2" THEN Add(Pow2(o.x), Pow2(o.y))
    ELSE Add(Add(Pow2(o.x), Pow2(o.y)), Pow2(o.z))

Components(o) == IF o.type = "Vec2" THEN <<o.x, o.y>> ELSE <<o.x, o.y, o.z>>

IsZeroVector(o) == \A i \in DOMAIN Components(o) : Components(o)[i] = Zero

\* the pivot a rotation was called with (the origin when around is None)
PivotOf(o, around) ==
    IF around # None THEN around
    ELSE IF o.type = "Vec2" THEN Vec2(Zero, Zero) ELSE Vec3(Zero, Zero, Zero)

InPlaceOps == {"scale", "normalise", "rotate"}

\* C1: after every call, the stored magnitude of every vector is the
\* Euclidean length of its components: magnitude >= 0 and
\* magnitude^2 = x^2 + y^2 [+ z^2].
C1_MagnitudeIsLength ==
    \A n \in Names :
        Bound(n) =>
            /\ ~Less(Obj(n).magnitude, Zero)
            /\ Pow2(Obj(n).magnitude) = SumOfSquares(Obj(n))

\* C2: whenever a == b is true for two vectors a and b (Vec2 or Vec3, in
\* either order), hash(a) = hash(b).
C2_EqualHashEqual ==
    (last.op = "eq" /\ IsVector(last.args[1]) /\ last.ret = TRUE)
        => hash(last.before) = hash(last.args[1])

\* C3: Vec2 + other and Vec2 - other raise, and return no vector, whenever
\* other is not a Vec2.
C3_AddSubRejectNonVec2 ==
    (last.op \in {"add", "sub"} /\ last.before.type = "Vec2"
        /\ last.args[1].type # "Vec2")
        => last.raised = "Exception"

\* new is a positive multiple of old, component by component
SameDirection(old, new) ==
    LET c == Components(old)
        d == Components(new)
    IN  /\ \A i \in DOMAIN c : Sgn(d[i][1]) = Sgn(c[i][1])
        /\ \A i \in DOMAIN c : \A j \in DOMAIN c : Mul(d[i], c[j]) = Mul(d[j], c[i])

\* C4: normalise(m) with m > 0 on a vector of nonzero length returns with a
\* vector of length m whose components are a positive multiple of the
\* components before the call.
C4_NormaliseSetsLength ==
    (last.op = "normalise" /\ ~IsZeroVector(last.before) /\ last.args[1] > 0)
        => /\ last.raised = "none"
           /\ SumOfSquares(Obj(last.name)) = Pow2(Float(last.args[1]))
           /\ SameDirection(last.before, Obj(last.name))

\* C5: normalise raises ZeroDivisionError exactly when all components of
\* the vector are 0 at the call.
C5_NormaliseRaisesIffZero ==
    last.op = "normalise"
        => (last.raised = "ZeroDivisionError" <=> IsZeroVector(last.before))

LessEq(a, b) == ~Less(b, a)

\* C6: v.in_bounds((low, high)) on vectors of v's type: when low <= high on
\* every axis it returns, and returns true iff low < v < high on every axis;
\* when low > high on some axis it raises.
C6_InBoundsStrict ==
    (/\ last.op = "in_bounds"
     /\ Len(last.args[1]) = 2
     /\ last.args[1][1].type = last.before.type
     /\ last.args[1][2].type = last.before.type)
        => LET v == Components(last.before)
               low == Components(last.args[1][1])
               high == Components(last.args[1][2])
           IN  IF \A i \in DOMAIN v : LessEq(low[i], high[i])
               THEN /\ last.raised = "none"
                    /\ last.ret = (\A i \in DOMAIN v : Less(low[i], v[i]) /\ Less(v[i], high[i]))
               ELSE last.raised = "Exception"

\* a point on the low face of a proper box, for which in_bounds returned False
C6_Witness ==
    /\ last.op = "in_bounds"
    /\ last.raised = "none"
    /\ last.ret = FALSE
    /\ last.before.type = "Vec2"
    /\ Len(last.args[1]) = 2
    /\ LET v == Components(last.before)
           low == Components(last.args[1][1])
           high == Components(last.args[1][2])
       IN  /\ v[1] = low[1]
           /\ \A i \in DOMAIN v : Less(low[i], high[i])
           /\ Less(low[2], v[2]) /\ Less(v[2], high[2])

\* C7: an in-place call (scale, normalise, rotate) on the copy w leaves the
\* source v as it was, and an in-place call on v leaves w as it was; w is
\* bound by copy(), * and / only.
C7_CopySharesNothing ==
    [][\A n \in Names :
          (last'.op \in InPlaceOps /\ last'.name = n)
              => \A m \in Names \ {n} : Bound(m) => heap'[ref[m]] = heap[ref[m]]]_vars

\* the copy has been scaled away from its source
C7_Witness ==
    /\ last.op = "scale"
    /\ last.name = "w"
    /\ Obj("w") # last.before
    /\ Components(Obj("v")) = Components(last.before)
    /\ Components(Obj("v")) # Components(Obj("w"))

RECURSIVE Turns(_, _, _)
\* k successive rotations of o by 90 degrees about the same pivot
Turns(o, around, k) ==
    IF k = 0 THEN o ELSE Turns(Vec2_rotate(o, 90, around), around, k - 1)

\* C8: Vec2.rotate(90, around = p) takes v to
\* (p.x - (v.y - p.y), p.y + (v.x - p.x)), and four such rotations about
\* the same pivot bring the components back.
C8_RotateCounterClockwise ==
    /\ (last.op = "rotate" /\ last.before.type = "Vec2" /\ last.args[1] = 90)
           => LET v == last.before
                  p == PivotOf(v, last.args[2])
              IN  /\ Obj(last.name).x = Sub(p.x, Sub(v.y, p.y))
                  /\ Obj(last.name).y = Add(p.y, Sub(v.x, p.x))
    /\ \A n \in Names : \A a \in Pivots2 :
           (Bound(n) /\ Obj(n).type = "Vec2" /\ Representable(Obj(n), a))
               => Components(Turns(Obj(n), a, 4)) = Components(Obj(n))

\* Vec2(1, 0).rotate(90) has given Vec2(0, 1)
C8_Witness ==
    /\ last.op = "rotate"
    /\ last.args = <<90, None>>
    /\ Components(last.before) = <<One, Zero>>
    /\ Components(Obj(last.name)) = <<Zero, One>>

\* one plane rotation of the offset (a, b) by the angle: the first and the
\* second new coordinate, before the pivot is added back
Turn1(degrees, a, b) ==
    Sub(Mul(Cos(Radians(degrees)), a), Mul(Sin(Radians(degrees)), b))

Turn2(degrees, a, b) ==
    Add(Mul(Cos(Radians(degrees)), b), Mul(Sin(Radians(degrees)), a))

\* C9: after Vec3.rotate(yaw, pitch, roll, around), with rel the offset of
\* the vector from the pivot before the call: x is the roll of (rel.x, rel.y)
\* if roll # 0, else the yaw of (rel.x, rel.z) if yaw # 0, else unchanged;
\* y is from roll if roll # 0, else from pitch if pitch # 0, else unchanged;
\* z is from pitch if pitch # 0, else from yaw if yaw # 0, else unchanged.
C9_RotateFromOriginalOffset ==
    (last.op = "rotate" /\ last.before.type = "Vec3")
        => LET v == last.before
               yaw == last.args[1]
               pitch == last.args[2]
               roll == last.args[3]
               p == PivotOf(v, last.args[4])
               rx == Sub(v.x, p.x)
               ry == Sub(v.y, p.y)
               rz == Sub(v.z, p.z)
               r == Obj(last.name)
           IN  /\ r.x = IF roll # 0 THEN Add(Turn1(roll, rx, ry), p.x)
                         ELSE IF yaw # 0 THEN Add(Turn1(yaw, rx, rz), p.x)
                         ELSE v.x
               /\ r.y = IF roll # 0 THEN Add(Turn2(roll, rx, ry), p.y)
                         ELSE IF pitch # 0 THEN Add(Turn1(pitch, ry, rz), p.y)
                         ELSE v.y
               /\ r.z = IF pitch # 0 THEN Add(Turn2(pitch, ry, rz), p.z)
                         ELSE IF yaw # 0 THEN Add(Turn2(yaw, rx, rz), p.z)
                         ELSE v.z

\* a rotation about a pivot with all three angles nonzero has moved the vector
C9_Witness ==
    /\ last.op = "rotate"
    /\ last.before.type = "Vec3"
    /\ last.args[1] # 0 /\ last.args[2] # 0 /\ last.args[3] # 0
    /\ last.args[4] # None
    /\ \A i \in 1 .. 3 : Components(Obj(last.name))[i] # Components(last.before)[i]

\* C10: rotate leaves the distance from the vector to the pivot as it was.
C10_RotateKeepsDistance ==
    last.op = "rotate"
        => distance_to(Obj(last.name), PivotOf(last.before, last.args[Len(last.args)]))
           = distance_to(last.before, PivotOf(last.before, last.args[Len(last.args)]))
====
